---- MODULE Spec2Model ----
(***************************************************************************)
(* State-machine model of the SLURM array-script writers                   *)
(*   src/run_fastp/write_slurm.py            (script "fastp")              *)
(*   src/star_alignment/write_slurm_alignment.py   (script "align")        *)
(*   src/write_slurm.py                      (script "stub")               *)
(*                                                                         *)
(* A world is one current working directory in which one of the scripts    *)
(* is invoked, possibly several times.  The state is the input directory,  *)
(* the output script file, and the position and locals of each running     *)
(* invocation.                                                             *)
(*                                                                         *)
(* File names are sequences of atoms: "_" and "." are atoms of their own   *)
(* and every other atom is a maximal run of characters holding neither,    *)
(* so that glob, Path.stem and str.split("_") are computed the way the     *)
(* library computes them on the characters.                                *)
(*                                                                         *)
(* The output file is a sequence of records, one per write() call that     *)
(* reached the file.  Field "by" of a record is a ghost: the invocation    *)
(* that wrote it.  It is not part of the bytes of the file.                *)
(*                                                                         *)
(* Modelled input domain: the input path is absent or a directory whose    *)
(* content does not change while an invocation runs; no I/O failure.       *)
(***************************************************************************)
EXTENDS Integers, Sequences, FiniteSets, TLC

VARIABLES script, dir, out, proc, runs, prev

vars == <<script, dir, out, proc, runs, prev>>

(***************************************************************************)
(* Bounds of the model.                                                    *)
(***************************************************************************)
MaxEntries == 3
MaxRuns == 2

Scripts == {"fastp", "align", "stub"}

(***************************************************************************)
(* Python values.                                                          *)
(***************************************************************************)
\* None, the default of an optional argument that is not given.
None == [type |-> "NoneType"]

\* A str object; argparse gives every value typed on the command line as
\* one, the text None included.
Str(s) == [type |-> "str", val |-> s]

\* Truth value of an optional argument: None and the empty str are falsy,
\* every other str is truthy.
Truthy(v) == v # None /\ v # Str("")

\* What an f-string field {v} renders: a str as its text, None as the
\* text None.
Format(v) == IF v = None THEN "None" ELSE v.val

\* No exception has left main.
NoException == "NoException"

(***************************************************************************)
(* Names.                                                                  *)
(***************************************************************************)
RECURSIVE Join(_)
Join(atoms) == IF atoms = <<>> THEN "" ELSE Head(atoms) \o Join(Tail(atoms))

RECURSIVE JoinSp(_)
JoinSp(ws) ==
    IF ws = <<>> THEN ""
    ELSE IF Len(ws) = 1 THEN Head(ws)
    ELSE Head(ws) \o " " \o JoinSp(Tail(ws))

Positions(name, a) == {i \in 1..Len(name) : name[i] = a}

Max(S) == CHOOSE m \in S : \A k \in S : k <= m
Min(S) == CHOOSE m \in S : \A k \in S : m <= k

\* PurePath.suffix: the text from the last "." on, when that "." is neither
\* the first nor the last character of the name; otherwise empty.
Suffix(name) ==
    LET dots == Positions(name, ".")
    IN  IF dots = {} THEN <<>>
        ELSE LET i == Max(dots)
             IN  IF 1 < i /\ i < Len(name) THEN SubSeq(name, i, Len(name)) ELSE <<>>

\* PurePath.stem: the name without its suffix.
Stem(name) == SubSeq(name, 1, Len(name) - Len(Suffix(name)))

\* s.split("_")[0]: the text before the first "_" (all of s when it has none).
SplitFirst(s) ==
    LET us == Positions(s, "_")
    IN  IF us = {} THEN s ELSE SubSeq(s, 1, Min(us) - 1)

FastqGz == <<".", "fastq", ".", "gz">>

\* Mutant: every entry taken, as iterdir() would.
GlobMatchAny(name) == TRUE

\* Path.glob("*.fastq.gz") on one entry name: the name ends in ".fastq.gz".
GlobMatch(name) ==
    /\ Len(name) >= Len(FastqGz)
    /\ SubSeq(name, Len(name) - Len(FastqGz) + 1, Len(name)) = FastqGz

\* fastq.stem.split("_")[0]
Derive(name) == SplitFirst(Stem(name))

(***************************************************************************)
(* Directory entries.  kind: file, dir, link_dir (symbolic link to a       *)
(* directory), link_file, link_broken.                                     *)
(***************************************************************************)
Entry(n, k) == [name |-> n, kind |-> k]

FqS1R1 == <<"S1", "_", "L001", "_", "R1", ".", "fastq", ".", "gz">>
FqS1R2 == <<"S1", "_", "L001", "_", "R2", ".", "fastq", ".", "gz">>
FqS2R1 == <<"S2", "_", "L001", "_", "R1", ".", "fastq", ".", "gz">>
FqS3 == <<"S3", ".", "fastq", ".", "gz">>
Notes == <<"notes", ".", "txt">>
KehS6 == <<"KEH-Rep1-7KO-HEK293T-Cyto-BS", "_", "S6", "_", "L001", "_", "R1", "_",
           "001", ".", "fastq", ".", "gz">>

KehS7 == <<"KEH-Rep1-7KO-HEK293T-Cyto-BS", "_", "S7", "_", "L001", "_", "R1", "_",
           "001", ".", "fastq", ".", "gz">>

FastpPool == {Entry(n, "file") : n \in {FqS1R1, FqS1R2, FqS2R1, FqS3, Notes, KehS6, KehS7}}

AlignPool == {Entry(<<"sampleA">>, "dir"), Entry(<<"sampleB">>, "link_dir"),
              Entry(<<"multiqc", ".", "html">>, "file"), Entry(<<"old">>, "link_broken")}

StubPool == {Entry(FqS1R1, "file")}

\* The entries a single invocation is tried on.
Pool(s) == IF s = "fastp" THEN FastpPool ELSE IF s = "align" THEN AlignPool ELSE StubPool

\* The entries the worlds with several invocations are built from.
SmallFastpPool == {Entry(n, "file") : n \in {FqS1R1, FqS1R2, FqS2R1, FqS3, Notes}}

SmallAlignPool == {Entry(<<"sampleA">>, "dir"), Entry(<<"sampleB">>, "link_dir"),
                   Entry(<<"multiqc", ".", "html">>, "file")}

SmallPool(s) ==
    IF s = "fastp" THEN SmallFastpPool ELSE IF s = "align" THEN SmallAlignPool ELSE StubPool

\* The input path: absent, or a directory of at most MaxEntries entries.
DirStates(pool) ==
    {[exists |-> FALSE, entries |-> {}]}
    \cup {[exists |-> TRUE, entries |-> E] :
             E \in {X \in SUBSET pool : Cardinality(X) <= MaxEntries}}

\* All orders in which a finite set can be enumerated.
Perms(S) ==
    {f \in [1..Cardinality(S) -> S] : \A i, j \in 1..Cardinality(S) : f[i] = f[j] => i = j}

(***************************************************************************)
(* Discovery of the work items.                                            *)
(***************************************************************************)
\* Mutant: is_dir(follow_symlinks=False).
WalkIsDirNoFollow(e) == e.kind = "dir"

\* os.DirEntry.is_dir() as os.walk calls it (symbolic links followed).
WalkIsDir(e) == e.kind \in {"dir", "link_dir"}

\* Path.is_dir() (symbolic links followed; a broken link is no directory).
PathIsDir(e) == e.kind \in {"dir", "link_dir"}

\* set([fastq.stem.split("_")[0] for fastq in start_dir.glob("*.fastq.gz")])
SampleNames(d) == {Derive(e.name) : e \in {x \in d.entries : GlobMatch(x.name)}}

\* len(sample_names) - 1
NumJobsFastp(d) == Cardinality(SampleNames(d)) - 1

\* len(next(os.walk(start_dir))[1]) - 1
NumJobsAlign(d) == Cardinality({e \in d.entries : WalkIsDir(e)}) - 1

\* Mutant: the existence check dropped.
InputDirMissingNever(d) == FALSE

\* not start_dir.exists()
InputDirMissing(d) == ~d.exists

(***************************************************************************)
(* Arguments.  cli = TRUE: started from the command line (the __main__     *)
(* block); cli = FALSE: main called directly.                              *)
(***************************************************************************)
InputFolder(s) == IF s = "align" THEN "trimmed_reads" ELSE "raw_fastqs"
OutputFolder(s) == IF s = "align" THEN "star_aligned" ELSE "trimmed_reads"

DefaultCfg == [filter_idx |-> None, two_pass |-> FALSE, emit_dedup |-> None]

\* The arguments the worlds with several invocations are run with.
SmallCfgs(s) ==
    IF s = "align"
    THEN {DefaultCfg,
          [filter_idx |-> Str("contam_idx"), two_pass |-> TRUE,
           emit_dedup |-> Str("dedup.sbatch")]}
    ELSE {DefaultCfg}

Cfgs(s) ==
    IF s = "align"
    THEN {DefaultCfg,
          [filter_idx |-> Str("contam_idx"), two_pass |-> TRUE,
           emit_dedup |-> Str("dedup.sbatch")],
          [filter_idx |-> None, two_pass |-> TRUE, emit_dedup |-> None],
          [filter_idx |-> Str("contam_idx"), two_pass |-> FALSE,
           emit_dedup |-> Str("dedup.sbatch")],
          [filter_idx |-> Str("None"), two_pass |-> FALSE, emit_dedup |-> None],
          [filter_idx |-> Str("None"), two_pass |-> TRUE, emit_dedup |-> None],
          [filter_idx |-> Str(""), two_pass |-> TRUE, emit_dedup |-> Str("")]}
    ELSE {DefaultCfg}

(***************************************************************************)
(* What is written.                                                        *)
(***************************************************************************)
\* The header block; "array" is the value of its #SBATCH --array= line.
Header(p, n) == [kind |-> "header", num_jobs |-> n, array |-> "0-" \o ToString(n), by |-> p]

\* The words of the fastp task line, between its quotes.
TaskFastp(s, name) ==
    <<"python3", "run_cutadapt_fastp.py", "--input", InputFolder(s),
      "--output", OutputFolder(s), "-C", "2", "-U", "12", "-S", Join(name)>>

\* The words of the alignment task line, between its quotes.
TaskAlign(s, cfg, sample) ==
    <<"python3", "-u", "run_align.py", "--input", InputFolder(s),
      "--output", OutputFolder(s), "--aligner", "star", "--index", "genome_idx",
      "-C", "8", "-L", "RF", "-S", Join(sample)>>
    \o (IF Truthy(cfg.filter_idx) THEN <<"--filter_index", Format(cfg.filter_idx)>> ELSE <<>>)
    \o (IF cfg.two_pass THEN <<"-T", "--emit_dedup_slurm", Format(cfg.emit_dedup)>> ELSE <<>>)

Task(p, ws) == [kind |-> "task", words |-> ws, by |-> p]

Trailer(p) == [kind |-> "trailer", by |-> p]

\* The text of a task line as written: newline, quote, words, quote.
Text(rec) == "\n\"" \o JoinSp(rec.words) \o "\""

\* Length of the header text without the digits of num_jobs, with the
\* default --email, --slurm_acct, --walltime and --mem.
HeaderBaseFastp == 1209
HeaderBaseAlign == 893
\* Length of "\n)\neval ${tasks[$SLURM_ARRAY_TASK_ID]}".
TrailerBytes == 38

Bytes(s, rec) ==
    IF rec.kind = "header"
    THEN (IF s = "align" THEN HeaderBaseAlign ELSE HeaderBaseFastp) + Len(rec.array) - 2
    ELSE IF rec.kind = "task" THEN Len(Text(rec))
    ELSE IF rec.kind = "trailer" THEN TrailerBytes
    ELSE rec.bytes

\* What is left of a content after its first n bytes are overwritten: the
\* records wholly covered are gone, one partly covered is left torn.
RECURSIVE Uncovered(_, _, _)
Uncovered(s, content, n) ==
    IF content = <<>> \/ n = 0 THEN content
    ELSE IF Bytes(s, Head(content)) <= n
         THEN Uncovered(s, Tail(content), n - Bytes(s, Head(content)))
         ELSE <<[kind |-> "torn", bytes |-> Bytes(s, Head(content)) - n]>> \o Tail(content)

Absent == [exists |-> FALSE, content |-> <<>>]

\* Mutant: exclusive creation (mode "x"), which fails on an existing file.
CanOpenExclusive(o) == ~o.exists

\* open(output, "w"): succeeds whether or not the file exists.
CanOpenW(o) == TRUE

\* open(output, "w"): the file is created, or truncated to nothing.
OpenedW(o) == [exists |-> TRUE, content |-> <<>>]

\* f.write(template_start) and the close, on a file opened with "w": the
\* text goes to offset 0, over whatever is there by now.
HeaderWritten(s, o, hdr) ==
    [exists |-> TRUE, content |-> <<hdr>> \o Uncovered(s, o.content, Bytes(s, hdr))]

\* open(output, "a"), f.write(text) and the close: the file is created when
\* absent and the text goes to its end.
Appended(o, rec) == [exists |-> TRUE, content |-> Append(o.content, rec)]

(***************************************************************************)
(* Invocations.  pc: idle, start (main entered, line 24), check (the       *)
(* "if not output.exists()"), open_w, write_hdr, iter (the alignment       *)
(* script's iterdir()), loop, done.  Ghost fields: pre, the output file as *)
(* it was when the invocation began; hdr, whether it wrote a header.       *)
(* status is the exit status of a command-line invocation ("" when there   *)
(* is none).                                                               *)
(***************************************************************************)
Idle == [pc |-> "idle", cli |-> FALSE, cfg |-> DefaultCfg, num_jobs |-> 0, todo |-> <<>>,
         err |-> NoException, status |-> "", pre |-> Absent, hdr |-> FALSE]

\* The invocations of a world: one at a time, or two at once.
SeqIds == {1}
ConcIds == {1, 2}

Procs == DOMAIN proc

AllIdle == \A p \in Procs : proc[p].pc = "idle"

\* An exception leaves main; the interpreter exits with status 1.
Raised(r, e) == [r EXCEPT !.pc = "done", !.err = e, !.status = IF r.cli THEN "1" ELSE ""]

\* Where the loop over the work items begins.
LoopEntry(s) == IF s = "align" THEN "iter" ELSE "loop"

\* parser.parse_args() with a required argument missing or a choice
\* invalid: usage error, exit status 2, main is not called.
CliUsageError(p) ==
    /\ proc[p].pc = "idle" /\ runs < MaxRuns
    /\ proc' = [proc EXCEPT ![p] = [Idle EXCEPT !.pc = "done", !.cli = TRUE,
                                                !.err = "SystemExit", !.status = "2",
                                                !.pre = out]]
    /\ runs' = runs + 1
    /\ UNCHANGED <<script, dir, out, prev>>

\* parser.parse_args() with -h or --help among the arguments, whatever the
\* others are: the usage is printed, exit status 0, main is not called.
CliHelp(p) ==
    /\ proc[p].pc = "idle" /\ runs < MaxRuns
    /\ proc' = [proc EXCEPT ![p] = [Idle EXCEPT !.pc = "done", !.cli = TRUE,
                                                !.err = "SystemExit", !.status = "0",
                                                !.pre = out]]
    /\ runs' = runs + 1
    /\ UNCHANGED <<script, dir, out, prev>>

\* src/write_slurm.py from the command line: main takes seven arguments
\* and is called with five.
CliStubTypeError(p) ==
    /\ proc[p].pc = "idle" /\ runs < MaxRuns
    /\ script = "stub"
    /\ proc' = [proc EXCEPT ![p] = [Idle EXCEPT !.pc = "done", !.cli = TRUE,
                                                !.err = "TypeError", !.status = "1",
                                                !.pre = out]]
    /\ runs' = runs + 1
    /\ UNCHANGED <<script, dir, out, prev>>

\* main is entered, from the command line with every argument valid, or
\* called directly.
Enter(p, cli, cfg) ==
    /\ proc[p].pc = "idle" /\ runs < MaxRuns
    /\ ~(cli /\ script = "stub")
    /\ proc' = [proc EXCEPT ![p] = [Idle EXCEPT !.pc = "start", !.cli = cli, !.cfg = cfg,
                                                !.pre = out]]
    /\ runs' = runs + 1
    /\ UNCHANGED <<script, dir, out, prev>>

RaiseNotFound(p) ==
    /\ proc[p].pc = "start"
    /\ InputDirMissing(dir)
    /\ proc' = [proc EXCEPT ![p] = Raised(@, "FileNotFoundError")]
    /\ UNCHANGED <<script, dir, out, runs, prev>>

\* src/write_slurm.py: "num_jobs = count - 1" with count never bound.
StubNameError(p) ==
    /\ proc[p].pc = "start" /\ script = "stub"
    /\ ~InputDirMissing(dir)
    /\ proc' = [proc EXCEPT ![p] = Raised(@, "NameError")]
    /\ UNCHANGED <<script, dir, out, runs, prev>>

\* The set of sample names; the order in which the set will be iterated
\* is any order (string hashing differs from one interpreter to the next).
DiscoverFastp(p) ==
    /\ proc[p].pc = "start" /\ script = "fastp"
    /\ ~InputDirMissing(dir)
    /\ \E order \in Perms(SampleNames(dir)) :
          proc' = [proc EXCEPT ![p] = [@ EXCEPT !.pc = "check", !.todo = order,
                                                !.num_jobs = NumJobsFastp(dir)]]
    /\ UNCHANGED <<script, dir, out, runs, prev>>

CountAlign(p) ==
    /\ proc[p].pc = "start" /\ script = "align"
    /\ ~InputDirMissing(dir)
    /\ proc' = [proc EXCEPT ![p] = [@ EXCEPT !.pc = "check", !.num_jobs = NumJobsAlign(dir)]]
    /\ UNCHANGED <<script, dir, out, runs, prev>>

CheckExists(p) ==
    /\ proc[p].pc = "check"
    /\ proc' = [proc EXCEPT ![p].pc = IF ~out.exists THEN "open_w" ELSE LoopEntry(script)]
    /\ UNCHANGED <<script, dir, out, runs, prev>>

OpenW(p) ==
    /\ proc[p].pc = "open_w"
    /\ CanOpenW(out)
    /\ out' = OpenedW(out)
    /\ proc' = [proc EXCEPT ![p].pc = "write_hdr"]
    /\ UNCHANGED <<script, dir, runs, prev>>

WriteHeader(p) ==
    /\ proc[p].pc = "write_hdr"
    /\ out' = HeaderWritten(script, out, Header(p, proc[p].num_jobs))
    /\ proc' = [proc EXCEPT ![p] = [@ EXCEPT !.pc = LoopEntry(script), !.hdr = TRUE]]
    /\ UNCHANGED <<script, dir, runs, prev>>

\* start_dir.iterdir(): every entry, in the order the file system lists them.
ListAlign(p) ==
    /\ proc[p].pc = "iter"
    /\ \E order \in Perms(dir.entries) :
          proc' = [proc EXCEPT ![p] = [@ EXCEPT !.pc = "loop", !.todo = order]]
    /\ UNCHANGED <<script, dir, out, runs, prev>>

AppendTaskFastp(p) ==
    /\ proc[p].pc = "loop" /\ script = "fastp"
    /\ proc[p].todo # <<>>
    /\ out' = Appended(out, Task(p, TaskFastp(script, Head(proc[p].todo))))
    /\ proc' = [proc EXCEPT ![p].todo = Tail(@)]
    /\ UNCHANGED <<script, dir, runs, prev>>

AppendTaskAlign(p) ==
    /\ proc[p].pc = "loop" /\ script = "align"
    /\ proc[p].todo # <<>>
    /\ PathIsDir(Head(proc[p].todo))
    /\ out' = Appended(out, Task(p, TaskAlign(script, proc[p].cfg,
                                              Stem(Head(proc[p].todo).name))))
    /\ proc' = [proc EXCEPT ![p].todo = Tail(@)]
    /\ UNCHANGED <<script, dir, runs, prev>>

SkipAlign(p) ==
    /\ proc[p].pc = "loop" /\ script = "align"
    /\ proc[p].todo # <<>>
    /\ ~PathIsDir(Head(proc[p].todo))
    /\ proc' = [proc EXCEPT ![p].todo = Tail(@)]
    /\ UNCHANGED <<script, dir, out, runs, prev>>

\* The closing text; main returns and a command-line invocation exits 0.
AppendTrailer(p) ==
    /\ proc[p].pc = "loop"
    /\ proc[p].todo = <<>>
    /\ out' = Appended(out, Trailer(p))
    /\ proc' = [proc EXCEPT ![p] = [@ EXCEPT !.pc = "done",
                                             !.status = IF proc[p].cli THEN "0" ELSE ""]]
    /\ UNCHANGED <<script, dir, runs, prev>>

\* The invocation is over.  Ghost prev keeps the last run that began with
\* no output file and completed: its directory, arguments and file.
Return(p) ==
    /\ proc[p].pc = "done"
    /\ prev' = IF proc[p].err = NoException /\ ~proc[p].pre.exists
               THEN <<[dir |-> dir, cfg |-> proc[p].cfg, content |-> out.content]>>
               ELSE prev
    /\ proc' = [proc EXCEPT ![p] = Idle]
    /\ UNCHANGED <<script, dir, out, runs>>

\* Between invocations the user changes the input directory ...
ChangeDir(d) ==
    /\ AllIdle /\ 0 < runs /\ runs < MaxRuns
    /\ d # dir
    /\ dir' = d
    /\ UNCHANGED <<script, out, proc, runs, prev>>

\* ... or deletes the output script.
DeleteOutput ==
    /\ AllIdle /\ runs < MaxRuns
    /\ out.exists
    /\ out' = Absent
    /\ UNCHANGED <<script, dir, proc, runs, prev>>

Step(p) ==
    \/ RaiseNotFound(p)
    \/ DiscoverFastp(p)
    \/ CountAlign(p)
    \/ CheckExists(p)
    \/ OpenW(p)
    \/ WriteHeader(p)
    \/ ListAlign(p)
    \/ AppendTaskFastp(p)
    \/ AppendTaskAlign(p)
    \/ SkipAlign(p)
    \/ AppendTrailer(p)

(***************************************************************************)
(* SpecOnce: one invocation of one script, over every directory of the     *)
(* pool and every argument choice.                                         *)
(***************************************************************************)
InitOnce ==
    /\ script \in Scripts
    /\ dir \in DirStates(Pool(script))
    /\ out = Absent
    /\ proc = [p \in SeqIds |-> Idle]
    /\ runs = 0
    /\ prev = <<>>

EnterOnce(p) ==
    /\ runs = 0
    /\ \E cli \in BOOLEAN, cfg \in Cfgs(script) : Enter(p, cli, cfg)

NextOnce ==
    \E p \in SeqIds :
        \/ runs = 0 /\ CliUsageError(p)
        \/ runs = 0 /\ CliHelp(p)
        \/ runs = 0 /\ CliStubTypeError(p)
        \/ EnterOnce(p)
        \/ StubNameError(p)
        \/ Step(p)

SpecOnce == InitOnce /\ [][NextOnce]_vars

(***************************************************************************)
(* Spec: one world, one invocation at a time, run after run; between runs  *)
(* the user may change the input directory or delete the output script.    *)
(***************************************************************************)
Init ==
    /\ script \in Scripts
    /\ dir \in DirStates(SmallPool(script))
    /\ out = Absent
    /\ proc = [p \in SeqIds |-> Idle]
    /\ runs = 0
    /\ prev = <<>>

Next ==
    \/ \E p \in SeqIds :
          \/ CliUsageError(p)
          \/ CliHelp(p)
          \/ CliStubTypeError(p)
          \/ \E cli \in BOOLEAN, cfg \in SmallCfgs(script) : Enter(p, cli, cfg)
          \/ StubNameError(p)
          \/ Step(p)
          \/ Return(p)
    \/ \E d \in DirStates(SmallPool(script)) : ChangeDir(d)
    \/ DeleteOutput

Spec == Init /\ [][Next]_vars

(***************************************************************************)
(* SpecConc: two invocations of the same script, with the same arguments,  *)
(* started by main on the same directory and the same absent output path,  *)
(* their steps interleaved in any way.                                     *)
(***************************************************************************)
ConcScripts == {"fastp", "align"}

InitConc ==
    /\ script \in ConcScripts
    /\ dir \in DirStates(SmallPool(script))
    /\ out = Absent
    /\ proc = [p \in ConcIds |-> Idle]
    /\ runs = 0
    /\ prev = <<>>

EnterConc(p) ==
    \E cfg \in SmallCfgs(script) :
        /\ \A q \in Procs : proc[q].pc # "idle" => proc[q].cfg = cfg
        /\ Enter(p, FALSE, cfg)

NextConc == \E p \in ConcIds : EnterConc(p) \/ Step(p)

SpecConc == InitConc /\ [][NextConc]_vars

(***************************************************************************)
(* Reading the state.                                                      *)
(***************************************************************************)
IsTask(r) == r.kind = "task"
IsHeader(r) == r.kind = "header"

Tasks(content) == SelectSeq(content, IsTask)
NumTasks(content) == Len(Tasks(content))
Range(f) == {f[i] : i \in DOMAIN f}
LastWord(r) == r.words[Len(r.words)]

\* The invocation has ended / has run main to completion.
Finished(p) == proc[p].pc = "done"
Completed(p) == Finished(p) /\ proc[p].err = NoException
\* main was entered: the command line was accepted and the call bound.
EnteredMain(p) == proc[p].pc # "idle" /\ proc[p].err \notin {"SystemExit", "TypeError"}
\* The output path did not exist when the invocation began.
Fresh(p) == ~proc[p].pre.exists

\* The work items of a directory for a script.
NumItems(s, d) ==
    IF s = "fastp" THEN Cardinality(SampleNames(d))
    ELSE IF s = "align" THEN Cardinality({e \in d.entries : PathIsDir(e)})
    ELSE Cardinality(d.entries)

\* What the invocation has added to the file it found.
Added(p) == SubSeq(out.content, Len(proc[p].pre.content) + 1, Len(out.content))

(***************************************************************************)
(* C1                                                                      *)
(***************************************************************************)
\* C1: when main of the trimming or the alignment script has run to
\* completion on an output path that did not exist before, with at least
\* one work item, the N of the header's "--array=0-N" is the number of
\* task lines in the file minus 1; for the alignment script the count
\* taken from os.walk is the number of iterdir entries that pass is_dir.
FirstRunArrayBound ==
    \A p \in Procs :
        (Completed(p) /\ Fresh(p) /\ script \in {"fastp", "align"}
                      /\ NumItems(script, dir) >= 1)
        => /\ out.content # <<>>
           /\ IsHeader(out.content[1])
           /\ out.content[1].num_jobs = NumTasks(out.content) - 1
           /\ out.content[1].array = "0-" \o ToString(NumTasks(out.content) - 1)
           /\ script = "align"
                => proc[p].num_jobs + 1 = Cardinality({e \in dir.entries : PathIsDir(e)})

\* A first alignment run over a directory, a link to a directory and a
\* plain file: two task lines under "--array=0-1".
FirstRunArrayBoundWitness ==
    \E p \in Procs :
        /\ Completed(p) /\ Fresh(p) /\ script = "align"
        /\ {e.kind : e \in dir.entries} = {"dir", "link_dir", "file"}
        /\ NumTasks(out.content) = 2
        /\ out.content[1].array = "0-1"

(***************************************************************************)
(* C2                                                                      *)
(***************************************************************************)
\* C2: with an existing input directory that holds no work item, main of
\* the trimming or the alignment script fails before writing anything,
\* and no file ever holds a negative array bound.
ZeroItemsRejected ==
    /\ \A p \in Procs :
          (Finished(p) /\ EnteredMain(p) /\ script \in {"fastp", "align"}
                       /\ dir.exists /\ NumItems(script, dir) = 0)
          => proc[p].err # NoException /\ out = proc[p].pre
    /\ \A i \in DOMAIN out.content :
          IsHeader(out.content[i]) => out.content[i].num_jobs >= 0

(***************************************************************************)
(* C3                                                                      *)
(***************************************************************************)
\* The name ends in ".fastq.gz".
EndsInFastqGz(name) ==
    /\ Len(name) >= 4
    /\ name[Len(name) - 3] = "." /\ name[Len(name) - 2] = "fastq"
    /\ name[Len(name) - 1] = "." /\ name[Len(name)] = "gz"

\* A fresh completed run of the trimming script has, for the identifier
\* set ids, a bound of |ids| - 1 and one task line per identifier, which
\* ends in "-S <identifier>" before the closing quote.
OneTaskPerIdentifier(ids) ==
    /\ NumTasks(out.content) = Cardinality(ids)
    /\ {LastWord(t) : t \in Range(Tasks(out.content))} = {Join(id) : id \in ids}
    /\ \A t \in Range(Tasks(out.content)) : t.words[Len(t.words) - 1] = "-S"
    /\ IsHeader(out.content[1])
    /\ out.content[1].num_jobs = Cardinality(ids) - 1

\* C3 as stated: the identifiers are the distinct first "_"-separated
\* tokens of the names that match "*.fastq.gz".
IdentifiersAreNameTokens ==
    \A p \in Procs :
        (Completed(p) /\ Fresh(p) /\ script = "fastp"
                      /\ \E e \in dir.entries : EndsInFastqGz(e.name))
        => OneTaskPerIdentifier({SplitFirst(e.name) :
                                    e \in {x \in dir.entries : EndsInFastqGz(x.name)}})

\* C3 (amended): the identifiers are the distinct first "_"-separated
\* tokens of the matching names without their final ".gz".
IdentifiersAreStemTokens ==
    \A p \in Procs :
        (Completed(p) /\ Fresh(p) /\ script = "fastp"
                      /\ \E e \in dir.entries : EndsInFastqGz(e.name))
        => OneTaskPerIdentifier({SplitFirst(SubSeq(e.name, 1, Len(e.name) - 2)) :
                                    e \in {x \in dir.entries : EndsInFastqGz(x.name)}})

\* The end-to-end scenario: S1_L001_R1, S1_L001_R2 and S2_L001_R1 give the
\* identifiers S1 and S2, bound 1 and two task lines.
IdentifiersWitness ==
    \E p \in Procs :
        /\ Completed(p) /\ Fresh(p) /\ script = "fastp"
        /\ {e.name : e \in dir.entries} = {FqS1R1, FqS1R2, FqS2R1}
        /\ out.content[1].array = "0-1"
        /\ NumTasks(out.content) = 2
        /\ {LastWord(t) : t \in Range(Tasks(out.content))} = {"S1", "S2"}

(***************************************************************************)
(* C4                                                                      *)
(***************************************************************************)
\* C4: in every script, when the input directory does not exist, main
\* raises FileNotFoundError and the output file stays as it was.
MissingDirFailsBeforeWrite ==
    \A p \in Procs :
        (EnteredMain(p) /\ ~dir.exists)
        => /\ out = proc[p].pre
           /\ proc[p].pc \in {"start", "done"}
           /\ Finished(p) => proc[p].err = "FileNotFoundError"

\* The input directory is gone and an output file of an earlier run is
\* there: main has raised and the file is untouched.
MissingDirWitness ==
    \E p \in Procs :
        /\ Finished(p) /\ proc[p].err = "FileNotFoundError"
        /\ ~dir.exists
        /\ proc[p].pre.exists /\ NumTasks(out.content) >= 1
        /\ out = proc[p].pre

(***************************************************************************)
(* C5                                                                      *)
(***************************************************************************)
\* What was there before the invocation is still there, as a prefix.
PrefixKept(p) ==
    /\ Len(out.content) >= Len(proc[p].pre.content)
    /\ SubSeq(out.content, 1, Len(proc[p].pre.content)) = proc[p].pre.content

\* C5: an invocation on an existing output file that runs to completion
\* leaves the existing content as a prefix and adds nothing but task
\* lines, one per work item.
RerunAppendsOnlyTasks ==
    \A p \in Procs :
        (Completed(p) /\ ~Fresh(p) /\ script \in {"fastp", "align"})
        => /\ PrefixKept(p)
           /\ Len(Added(p)) = NumItems(script, dir)
           /\ \A i \in DOMAIN Added(p) : IsTask(Added(p)[i])

(***************************************************************************)
(* C6                                                                      *)
(***************************************************************************)
\* C6: for each of the three scripts a command-line invocation with every
\* required argument (one whose arguments parse_args() returns, so neither
\* a usage error nor a help request), on an existing input directory with at least one
\* work item, runs main to completion, writes the output script and exits
\* with status 0; the exit status is non-zero only on a missing input
\* directory or a missing or invalid argument.
SuccessPathExitsZero ==
    \A p \in Procs :
        (Finished(p) /\ proc[p].cli)
        => /\ (proc[p].err # "SystemExit" /\ dir.exists /\ NumItems(script, dir) >= 1)
                => (proc[p].status = "0" /\ proc[p].err = NoException /\ out.exists)
           /\ proc[p].status # "0" => (~dir.exists \/ proc[p].err = "SystemExit")

(***************************************************************************)
(* C7                                                                      *)
(***************************************************************************)
\* C7: two runs of the trimming script with the same arguments, on the
\* same directory content and an absent output path, write the same file.
DeterministicRendering ==
    \A p \in Procs :
        (Completed(p) /\ Fresh(p) /\ script = "fastp" /\ prev # <<>>)
        => ((prev[1].dir = dir /\ prev[1].cfg = proc[p].cfg)
                => out.content = prev[1].content)

(***************************************************************************)
(* C8                                                                      *)
(***************************************************************************)
\* The words of a task line after "-S <sample>".
FlagTail(ws) ==
    LET i == CHOOSE k \in DOMAIN ws : ws[k] = "-S"
    IN  SubSeq(ws, i + 2, Len(ws))

HasFlag(tail, f) == \E k \in DOMAIN tail : tail[k] = f
FlagPos(tail, f) == CHOOSE k \in DOMAIN tail : tail[k] = f
FlagValue(tail, f) == IF FlagPos(tail, f) < Len(tail) THEN tail[FlagPos(tail, f) + 1] ELSE ""

\* C8: in every task line of the alignment script each optional flag is
\* there only when its own value is given (--filter_index with filter_idx,
\* -T with two_pass, --emit_dedup_slurm with emit_dedup), and the flags
\* that are there come in the order --filter_index, -T, --emit_dedup_slurm.
OptionalFlagsOwnValue ==
    \A p \in Procs :
        (script = "align" /\ EnteredMain(p))
        => \A t \in Range(Tasks(Added(p))) :
             LET tail == FlagTail(t.words)
                 cfg == proc[p].cfg
             IN  /\ HasFlag(tail, "--filter_index")
                      => (Truthy(cfg.filter_idx)
                          /\ FlagValue(tail, "--filter_index") = Format(cfg.filter_idx))
                 /\ HasFlag(tail, "-T") => cfg.two_pass
                 /\ HasFlag(tail, "--emit_dedup_slurm")
                      => (Truthy(cfg.emit_dedup)
                          /\ FlagValue(tail, "--emit_dedup_slurm") = Format(cfg.emit_dedup))
                 /\ (HasFlag(tail, "--filter_index") /\ HasFlag(tail, "-T"))
                      => FlagPos(tail, "--filter_index") < FlagPos(tail, "-T")
                 /\ (HasFlag(tail, "-T") /\ HasFlag(tail, "--emit_dedup_slurm"))
                      => FlagPos(tail, "-T") < FlagPos(tail, "--emit_dedup_slurm")
                 /\ (HasFlag(tail, "--filter_index") /\ HasFlag(tail, "--emit_dedup_slurm"))
                      => FlagPos(tail, "--filter_index") < FlagPos(tail, "--emit_dedup_slurm")

(***************************************************************************)
(* C9                                                                      *)
(***************************************************************************)
\* C9: for KEH-Rep1-7KO-HEK293T-Cyto-BS_S6_L001_R1_001.fastq.gz the task
\* appended ends in "-S KEH-Rep1-7KO-HEK293T-Cyto-BS_S6", and two files
\* that differ in their second "_"-separated token give two task lines
\* with two distinct identifiers.
DocstringSampleName ==
    \A p \in Procs :
        (Completed(p) /\ script = "fastp")
        => /\ Entry(KehS6, "file") \in dir.entries
                => \E t \in Range(Tasks(Added(p))) :
                      LastWord(t) = "KEH-Rep1-7KO-HEK293T-Cyto-BS_S6"
           /\ {Entry(KehS6, "file"), Entry(KehS7, "file")} \subseteq dir.entries
                => \E t, u \in Range(Tasks(Added(p))) : LastWord(t) # LastWord(u)

(***************************************************************************)
(* C10                                                                     *)
(***************************************************************************)
\* C10: nothing protects concurrent invocations.  An invocation that has
\* passed the "not exists" check goes on to create and write the header
\* whatever the other has done to the file meanwhile, and every pending
\* append can be taken at any point of the other's run.
NoMutualExclusion ==
    \A p \in Procs :
        /\ proc[p].pc = "open_w" => ENABLED OpenW(p)
        /\ proc[p].pc = "write_hdr" => ENABLED WriteHeader(p)
        /\ (proc[p].pc = "loop" /\ script = "fastp" /\ proc[p].todo # <<>>)
             => ENABLED AppendTaskFastp(p)
        /\ (proc[p].pc = "loop" /\ script = "align" /\ proc[p].todo # <<>>)
             => ENABLED (AppendTaskAlign(p) \/ SkipAlign(p))

\* Both invocations passed the check and wrote the header, and in the
\* final file a task line of one lies between two task lines of the other.
InterleavedWitness ==
    /\ \A p \in Procs : Finished(p) /\ proc[p].hdr
    /\ Cardinality(Procs) = 2
    /\ \E i, j, k \in DOMAIN out.content :
          /\ i < j /\ j < k
          /\ IsTask(out.content[i]) /\ IsTask(out.content[j]) /\ IsTask(out.content[k])
          /\ out.content[i].by = out.content[k].by
          /\ out.content[j].by # out.content[i].by

====
